---- MODULE Spec2Model ----
(***************************************************************************)
(* A model of app.py (Universal Sci & Tech Breakthrough Beat): the text    *)
(* utilities, the fingerprint, the feed aggregation pipeline and the       *)
(* archive builder.                                                        *)
(*                                                                         *)
(* Strings are sequences of one-character strings, so that slicing,        *)
(* splitting, regular-expression substitution and comparison are computed  *)
(* character by character as Python computes them.                         *)
(***************************************************************************)
EXTENDS Integers, Sequences, FiniteSets, TLC

VARIABLES
    pc,            \* position of build()/aggregate(): see the actions
    query,         \* aggregate's argument query ("" or non-empty)
    per_feed_limit,\* aggregate's argument per_feed_limit
    max_total,     \* aggregate's argument max_total
    thumb_arg,     \* aggregate's argument thumb_budget as passed
    thumb_budget,  \* aggregate's local thumb_budget (decremented)
    fi,            \* index of the next feed of `feeds` to fetch
    all_items,     \* aggregate's all_items
    seen,          \* aggregate's seen
    deduped,       \* aggregate's deduped (sorted in place at the end)
    di,            \* index of the next element of all_items to examine
    ti,            \* index of the next element of deduped to enrich
    lookups,       \* number of get_og_image calls made by the enrichment loop
    kept,          \* deduped as it was when the de-dup loop ended
    items,         \* build's items (aggregate's return value)
    stdout,        \* lines print()ed by log()
    logfile,       \* contents of output/data/logs.txt, a sequence of lines
    by_month,      \* write_archives' by_month: month key -> list of items
    months,        \* write_archives' months: the index page's order
    call           \* the utility function called on its own, with its arguments and result

vars == <<pc, query, per_feed_limit, max_total, thumb_arg, thumb_budget, fi,
          all_items, seen, deduped, di, ti, lookups, kept, items, stdout,
          logfile, by_month, months, call>>

pipeVars == <<query, per_feed_limit, max_total, thumb_arg, thumb_budget, fi,
              all_items, seen, deduped, di, ti, lookups, kept, items, stdout,
              logfile, by_month, months>>

---------------------------------------------------------------------------
(* Characters and strings *)

\* Python's None where a string is expected: the code tells it from a string
\* only by truthiness, and no string it is compared with here is empty.
None == <<>>

Ellipsis == "U+2026"

Digits == <<"0", "1", "2", "3", "4", "5", "6", "7", "8", "9">>

LowerLetters ==
    <<"a", "b", "c", "d", "e", "f", "g", "h", "i", "j", "k", "l", "m",
      "n", "o", "p", "q", "r", "s", "t", "u", "v", "w", "x", "y", "z">>

UpperLetters ==
    <<"A", "B", "C", "D", "E", "F", "G", "H", "I", "J", "K", "L", "M",
      "N", "O", "P", "Q", "R", "S", "T", "U", "V", "W", "X", "Y", "Z">>

Range(f) == {f[i] : i \in DOMAIN f}

IsDigit(c) == c \in Range(Digits)

IsLower(c) == c \in Range(LowerLetters)

IsUpper(c) == c \in Range(UpperLetters)

\* Python's \s and str.strip() whitespace, within the model's alphabet.
IsSpace(c) == c \in {" ", "\t", "\n"}

\* str.lower() on one character.
LowerChar(c) ==
    IF IsUpper(c)
    THEN LowerLetters[CHOOSE i \in DOMAIN UpperLetters : UpperLetters[i] = c]
    ELSE c

\* str.lower()
Lower(s) == [i \in DOMAIN s |-> LowerChar(s[i])]

\* ord(c) of the characters that get compared, other than letters and digits
OtherCodes ==
    [c \in {"\t", "\n", " ", "-", ".", "/", ":", "<", ">"} |->
        CASE c = "\t" -> 9 [] c = "\n" -> 10 [] c = " " -> 32 [] c = "-" -> 45
          [] c = "." -> 46 [] c = "/" -> 47 [] c = ":" -> 58 [] c = "<" -> 60
          [] c = ">" -> 62]

\* ord(c), tabulated: Python compares strings by code point.
CodePoint ==
    [c \in Range(Digits) \cup Range(UpperLetters) \cup Range(LowerLetters)
            \cup DOMAIN OtherCodes |->
        IF IsDigit(c) THEN 47 + (CHOOSE i \in DOMAIN Digits : Digits[i] = c)
        ELSE IF IsUpper(c)
             THEN 64 + (CHOOSE i \in DOMAIN UpperLetters : UpperLetters[i] = c)
        ELSE IF IsLower(c)
             THEN 96 + (CHOOSE i \in DOMAIN LowerLetters : LowerLetters[i] = c)
        ELSE OtherCodes[c]]

Ord(c) == CodePoint[c]

RECURSIVE StrLess(_, _)
\* a < b for two Python strings: lexicographic by code point, a proper
\* prefix being smaller.
StrLess(a, b) ==
    IF b = <<>> THEN FALSE
    ELSE IF a = <<>> THEN TRUE
    ELSE IF Ord(Head(a)) # Ord(Head(b)) THEN Ord(Head(a)) < Ord(Head(b))
    ELSE StrLess(Tail(a), Tail(b))

\* s[:n] for n >= 0
Prefix(s, n) == SubSeq(s, 1, IF n < Len(s) THEN n ELSE Len(s))

RECURSIVE LStrip(_)
LStrip(s) == IF s # <<>> /\ IsSpace(Head(s)) THEN LStrip(Tail(s)) ELSE s

RECURSIVE RStrip(_)
RStrip(s) ==
    IF s # <<>> /\ IsSpace(s[Len(s)]) THEN RStrip(SubSeq(s, 1, Len(s) - 1)) ELSE s

\* str.strip()
Strip(s) == RStrip(LStrip(s))

RECURSIVE CollapseWs(_)
\* re.sub(r"\s+", " ", s): every maximal run of whitespace becomes one space.
CollapseWs(s) ==
    IF s = <<>> THEN <<>>
    ELSE IF IsSpace(Head(s)) THEN <<" ">> \o CollapseWs(LStrip(s))
    ELSE <<Head(s)>> \o CollapseWs(Tail(s))

\* The first index j > i with s[j] = ">" and no newline in between, or 0:
\* where the lazy <.*?> that opens at i ends ("." does not match a newline).
TagEnd(s, i) ==
    LET ends == {j \in (i + 1)..Len(s) :
                    /\ s[j] = ">"
                    /\ \A k \in (i + 1)..(j - 1) : s[k] # "\n"}
    IN  IF ends = {} THEN 0 ELSE CHOOSE j \in ends : \A k \in ends : j <= k

RECURSIVE StripTagsFrom(_, _)
StripTagsFrom(s, i) ==
    IF i > Len(s) THEN <<>>
    ELSE IF s[i] = "<" /\ TagEnd(s, i) # 0
         THEN <<" ">> \o StripTagsFrom(s, TagEnd(s, i) + 1)
         ELSE <<s[i]>> \o StripTagsFrom(s, i + 1)

\* re.sub(r"<.*?>", " ", s)
StripTags(s) == StripTagsFrom(s, 1)

clean_text(s) ==
    IF s = <<>> THEN <<>> ELSE Strip(CollapseWs(StripTags(s)))

\* s.rsplit(" ", 1)[0]: what precedes the last space, or s when it has none.
RSplitHead(s) ==
    LET sp == {i \in DOMAIN s : s[i] = " "}
    IN  IF sp = {} THEN s
        ELSE SubSeq(s, 1, (CHOOSE i \in sp : \A k \in sp : k <= i) - 1)

truncate(s, n) ==
    LET c == clean_text(s)
    IN  IF Len(c) <= n THEN c ELSE RSplitHead(Prefix(c, n)) \o <<Ellipsis>>

---------------------------------------------------------------------------
(* Fingerprint *)

\* urllib.parse's scheme_chars
IsSchemeChar(c) == IsLower(c) \/ IsUpper(c) \/ IsDigit(c) \/ c \in {"+", "-", "."}

\* The least element of a non-empty set of integers.
Min(S) == CHOOSE i \in S : \A k \in S : i <= k

\* What urlsplit leaves of url once a leading "scheme:" is taken off.
AfterScheme(url) ==
    LET colons == {i \in DOMAIN url : url[i] = ":"}
    IN  IF colons = {} THEN url
        ELSE LET i == Min(colons)
             IN  IF /\ i > 1
                    /\ (IsLower(url[1]) \/ IsUpper(url[1]))
                    /\ \A k \in 1..(i - 1) : IsSchemeChar(url[k])
                 THEN SubSeq(url, i + 1, Len(url))
                 ELSE url

\* urlparse(url).netloc, for urls without brackets, control characters or
\* leading whitespace: what follows "//" up to the first of "/", "?", "#".
Netloc(url) ==
    LET rest == AfterScheme(url)
    IN  IF Len(rest) >= 2 /\ rest[1] = "/" /\ rest[2] = "/"
        THEN LET delims == {i \in 3..Len(rest) : rest[i] \in {"/", "?", "#"}}
                 delim == IF delims = {} THEN Len(rest) + 1 ELSE Min(delims)
             IN  SubSeq(rest, 3, delim - 1)
        ELSE <<>>

\* re.sub(r"[^a-z0-9 ]+", "", t)
KeepKeyChars(t) == SelectSeq(t, LAMBDA c : IsLower(c) \/ IsDigit(c) \/ c = " ")

\* t of normalize_key: lower-cased, whitespace collapsed, stripped, and only
\* then reduced to [a-z0-9 ].
KeyTitle(title) == KeepKeyChars(Strip(CollapseWs(Lower(title))))

\* host of normalize_key
KeyHost(link) == Lower(Netloc(link))

\* hashlib.sha1(x).hexdigest(): a deterministic digest of the bytes hashed,
\* taken to be collision-free.
Sha1Hex(x) == <<"sha1", x>>

normalize_key(title, link) == Sha1Hex(KeyHost(link) \o <<"|">> \o KeyTitle(title))

---------------------------------------------------------------------------
(* The utility functions called on their own *)

\* Bounds of the inputs drawn for truncate and normalize_key.
MaxTextLen == 4

MaxTruncN == 3

MaxTitleLen == 3

SeqsUpTo(S, n) == UNION {[1..k -> S] : k \in 0..n}

TruncChars == {"a", " ", "<", ">", "\n"}

TitleChars == {"a", "A", ".", " "}

KeyLinks ==
    { <<"h", ":", "/", "/", "x", "/", "1">>,
      <<"h", ":", "/", "/", "X", "/", "2">>,
      <<"h", ":", "/", "/", "y", "/", "1">>,
      <<"x">>,
      <<>> }

NoCall == [op |-> "none"]

TruncateCall ==
    /\ pc = "util"
    /\ \E s \in SeqsUpTo(TruncChars, MaxTextLen), n \in 0..MaxTruncN :
          call' = [op |-> "truncate", s |-> s, n |-> n, ret |-> truncate(s, n)]
    /\ pc' = "returned"
    /\ UNCHANGED pipeVars

NormalizeKeyCall ==
    /\ pc = "util"
    /\ \E t \in SeqsUpTo(TitleChars, MaxTitleLen), l \in KeyLinks :
          call' = [op |-> "normalize_key", title |-> t, link |-> l,
                   ret |-> normalize_key(t, l)]
    /\ pc' = "returned"
    /\ UNCHANGED pipeVars

---------------------------------------------------------------------------
(* Dates *)

\* The value of one date field of a feed entry: missing, a value whose
\* conversion raises (mktime or parsedate_to_datetime), or a broken-down
\* time <<Y, m, d, H, M, S>>.
Absent == [kind |-> "absent"]

Garbage == [kind |-> "garbage"]

Time(t) == [kind |-> "time", t |-> t]

Pad2(n) == <<Digits[(n \div 10) + 1], Digits[(n % 10) + 1]>>

Pad4(n) == Pad2(n \div 100) \o Pad2(n % 100)

\* strftime("%Y-%m-%d %H:%M:%S") of a broken-down time <<Y, m, d, H, M, S>>
strftime(t) ==
    Pad4(t[1]) \o <<"-">> \o Pad2(t[2]) \o <<"-">> \o Pad2(t[3]) \o <<" ">>
      \o Pad2(t[4]) \o <<":">> \o Pad2(t[5]) \o <<":">> \o Pad2(t[6])

Converts(v) == v.kind = "time"

\* A chain that stops at the first key that is present, converting or not.
StopsAtFirstPresent(e, keys) ==
    LET present == {i \in DOMAIN keys : e[keys[i]] # Absent}
        first == CHOOSE i \in present : \A j \in present : i <= j
    IN  IF present = {} \/ ~Converts(e[keys[first]]) THEN <<>>
        ELSE strftime(e[keys[first]].t)

RECURSIVE FirstConverted(_, _)
\* The canonical string of the first of `keys` that is present in entry e and
\* converts, or the empty string when none does.
FirstConverted(e, keys) ==
    IF keys = <<>> THEN <<>>
    ELSE IF Converts(e[Head(keys)]) THEN strftime(e[Head(keys)].t)
    ELSE FirstConverted(e, Tail(keys))

\* parse_date(entry), the run's local time zone being UTC (mktime followed
\* by utcfromtimestamp then gives back the broken-down time).
parse_date(e) ==
    LET structured == FirstConverted(e, <<"published_parsed", "updated_parsed">>)
        fromString == FirstConverted(e, <<"published", "updated", "dc_date">>)
    IN  IF structured # <<>> THEN structured ELSE fromString

\* The date fields parse_date reads
DateFields == {"published_parsed", "updated_parsed", "published", "updated", "dc_date"}

\* What one date field of an entry may hold
DateValues == {Absent, Garbage, Time(<<2024, 3, 15, 10, 30, 0>>), Time(<<2024, 3, 2, 8, 0, 0>>)}

\* The entries parse_date is called on
DateEntries == [DateFields -> DateValues]

ParseDateCall ==
    /\ pc = "util"
    /\ \E e \in DateEntries :
          call' = [op |-> "parse_date", entry |-> e, ret |-> parse_date(e)]
    /\ pc' = "returned"
    /\ UNCHANGED pipeVars

---------------------------------------------------------------------------
(* Feeds *)

QueryFeeds == <<"Google News", "PubMed">>

\* The first of the twelve BASE_FEEDS.
BASE_FEEDS == <<"NIH">>

\* aggregate's feeds for a query
Feeds(q) == (IF q # <<>> THEN QueryFeeds ELSE <<>>) \o BASE_FEEDS

T_Mar15 == <<2024, 3, 15, 10, 30, 0>>

T_Mar02 == <<2024, 3, 2, 8, 0, 0>>

T_Feb28 == <<2024, 2, 28, 23, 59, 59>>

Url(host, path) == <<"h", ":", "/", "/">> \o host \o <<"/">> \o path

NoDates ==
    [published_parsed |-> Absent, updated_parsed |-> Absent,
     published |-> Absent, updated |-> Absent, dc_date |-> Absent]

RawEntry(title, link, summary, dates) ==
    [title |-> title, link |-> link, summary |-> summary] @@ dates

\* The entries a parsed feed may hold (fp.entries draws from these).
RawEntries ==
    { RawEntry(<<" ", "A", "b">>, Url(<<"x">>, <<"1">>), <<"s", "<", "b", ">", "t">>,
               [NoDates EXCEPT !.published_parsed = Time(T_Mar15)]),
      RawEntry(<<"a", "b", ".">>, Url(<<"X">>, <<"2">>), <<>>,
               [NoDates EXCEPT !.published_parsed = Garbage, !.updated_parsed = Time(T_Feb28)]),
      RawEntry(<<" ">>, Url(<<"x">>, <<"1">>), <<"s">>,
               [NoDates EXCEPT !.published_parsed = Time(T_Mar15)]),
      RawEntry(<<".">>, Url(<<"x">>, <<"3">>), <<"s">>,
               [NoDates EXCEPT !.published = Garbage]),
      RawEntry(<<"c">>, Url(<<"y">>, <<"1">>), <<"s">>,
               [NoDates EXCEPT !.updated = Time(T_Mar15)]),
      RawEntry(<<"d">>, Url(<<"y">>, <<"2">>), <<"s">>,
               [NoDates EXCEPT !.dc_date = Time(T_Mar02)]),
      RawEntry(<<"A", "b">>, <<" ">>, <<"s">>,
               [NoDates EXCEPT !.published_parsed = Time(T_Feb28)]) }

SummaryLimit == 360

\* The fields fetch_feed computes from one entry; `summary` stands for
\* e.get("summary") or e.get("description") or "".
EntryFields(e) ==
    [title   |-> Strip(e.title),
     link    |-> Strip(e.link),
     summary |-> truncate(e.summary, SummaryLimit),
     date    |-> parse_date(e),
     image   |-> None]

\* EntryFields, tabulated over the entries a feed may hold.
FieldsOf == [e \in RawEntries |-> EntryFields(e)]

\* The dict fetch_feed builds from one entry of source `src`.
MakeItem(src, e) == [source |-> src] @@ FieldsOf[e]

\* fetch_feed's items for a response whose parsed entries are `entries`
FetchedItems(src, entries, limit) ==
    LET cut == Prefix(entries, limit)
    IN  [i \in DOMAIN cut |-> MakeItem(src, cut[i])]

\* A fetch_feed whose failure leaves an item behind.
FailedItemsLeftover(src) == <<MakeItem(src, CHOOSE e \in RawEntries : Len(e.title) = 1)>>

\* fetch_feed's items when the request, the status check or the parse raised
FailedItems(src) == <<>>

\* log(msg): the line is printed and appended to the log file.
LogLine(line) ==
    /\ stdout' = Append(stdout, line)
    /\ logfile' = Append(logfile, line)

---------------------------------------------------------------------------
(* aggregate *)

\* Bounds of the inputs drawn for aggregate: per_feed_limit (a parsed feed
\* holds up to one entry more), the number of items fetched from all feeds
\* together, max_total and thumb_budget.
MaxPerFeed == 2

MaxItems == 2

MaxTotalBound == 2

MaxBudget == 1

Queries == {<<>>, <<"q">>}

feeds == Feeds(query)

\* build(query) calls aggregate, whose arguments are drawn here.
AggregateStart ==
    /\ pc = "idle"
    /\ \E q \in Queries, lim \in {MaxPerFeed}, mt \in 0..MaxTotalBound,
          tb \in 0..MaxBudget :
          /\ query' = q
          /\ per_feed_limit' = lim
          /\ max_total' = mt
          /\ thumb_arg' = tb
          /\ thumb_budget' = tb
    /\ fi' = 1
    /\ all_items' = <<>>
    /\ pc' = "fetch"
    /\ UNCHANGED <<seen, deduped, di, ti, lookups, kept, items, stdout, logfile,
                   by_month, months, call>>

\* Where aggregate goes once feed number fi has been fetched.
AfterFetch == IF fi = Len(feeds) THEN "dedupe" ELSE "fetch"

\* all_items.extend(fetch_feed(...)) for a feed that answers and parses.
FetchFeedOk ==
    /\ pc = "fetch"
    /\ \E n \in 0..(MaxPerFeed + 1) :
          /\ Len(all_items) + (IF n < per_feed_limit THEN n ELSE per_feed_limit) <= MaxItems
          /\ \E entries \in [1..n -> RawEntries] :
                LET got == FetchedItems(feeds[fi], entries, per_feed_limit)
                IN  /\ all_items' = all_items \o got
                    /\ LogLine([ev |-> "Fetched", src |-> feeds[fi], n |-> Len(got)])
    /\ fi' = fi + 1
    /\ pc' = AfterFetch
    /\ UNCHANGED <<query, per_feed_limit, max_total, thumb_arg, thumb_budget, seen,
                   deduped, di, ti, lookups, kept, items, by_month, months, call>>

\* all_items.extend(fetch_feed(...)) for a feed whose request, status check
\* or parse raises.
FetchFeedFail ==
    /\ pc = "fetch"
    /\ all_items' = all_items \o FailedItems(feeds[fi])
    /\ LogLine([ev |-> "Fetch error", src |-> feeds[fi], n |-> 0])
    /\ fi' = fi + 1
    /\ pc' = AfterFetch
    /\ UNCHANGED <<query, per_feed_limit, max_total, thumb_arg, thumb_budget, seen,
                   deduped, di, ti, lookups, kept, items, by_month, months, call>>

\* A check that forgets the link.
RetainedByTitle(it) == it.title # <<>>

\* not (not it.get("title") or not it.get("link"))
Retained(it) == it.title # <<>> /\ it.link # <<>>

\* normalize_key over the (title, link) pairs the feeds can deliver, tabulated
KeyTable ==
    [p \in {<<FieldsOf[e].title, FieldsOf[e].link>> : e \in RawEntries} |->
        normalize_key(p[1], p[2])]

ItemKey(it) == KeyTable[<<it.title, it.link>>]

\* A de-dup loop that forgets the keys it has kept.
SeenForgets(s, k) == s

\* seen.add(k)
SeenAfter(s, k) == s \cup {k}

\* len(deduped) >= max_total
CapReached(d, mt) == Len(d) >= mt

\* The de-dup loop meets an item it does not keep: `continue`.
DedupeSkip ==
    /\ pc = "dedupe"
    /\ di <= Len(all_items)
    /\ \/ ~Retained(all_items[di])
       \/ ItemKey(all_items[di]) \in seen
    /\ di' = di + 1
    /\ UNCHANGED <<pc, query, per_feed_limit, max_total, thumb_arg, thumb_budget, fi,
                   all_items, seen, deduped, ti, lookups, kept, items, stdout,
                   logfile, by_month, months, call>>

\* The de-dup loop keeps an item, and breaks when the cap is reached.
DedupeKeep ==
    /\ pc = "dedupe"
    /\ di <= Len(all_items)
    /\ Retained(all_items[di])
    /\ ItemKey(all_items[di]) \notin seen
    /\ seen' = SeenAfter(seen, ItemKey(all_items[di]))
    /\ deduped' = Append(deduped, all_items[di])
    /\ IF CapReached(deduped', max_total)
       THEN /\ pc' = "thumbs"
            /\ kept' = deduped'
            /\ LogLine([ev |-> "After dedupe", src |-> "", n |-> Len(deduped')])
            /\ di' = di
       ELSE /\ di' = di + 1
            /\ UNCHANGED <<pc, kept, stdout, logfile>>
    /\ UNCHANGED <<query, per_feed_limit, max_total, thumb_arg, thumb_budget, fi,
                   all_items, ti, lookups, items, by_month, months, call>>

\* The de-dup loop runs out of items.
DedupeEnd ==
    /\ pc = "dedupe"
    /\ di > Len(all_items)
    /\ pc' = "thumbs"
    /\ kept' = deduped
    /\ LogLine([ev |-> "After dedupe", src |-> "", n |-> Len(deduped)])
    /\ UNCHANGED <<query, per_feed_limit, max_total, thumb_arg, thumb_budget, fi,
                   all_items, seen, deduped, di, ti, lookups, items, by_month,
                   months, call>>

ImageUrl == <<"i", "m", "g">>

\* What get_og_image may do: return an image URL, return None because the
\* page has no image, or catch an exception, log it and return None.
OgOutcomes ==
    { [img |-> ImageUrl, raised |-> FALSE],
      [img |-> None, raised |-> FALSE],
      [img |-> None, raised |-> TRUE] }

\* A thumbnail loop that never charges the budget.
BudgetNeverCharged(b, img) == b

\* thumb_budget after a lookup that returned img
BudgetAfter(b, img) == IF img # None THEN b - 1 ELSE b

\* One pass of the thumbnail loop.
ThumbLookup ==
    /\ pc = "thumbs"
    /\ ti <= Len(deduped)
    /\ thumb_budget > 0
    /\ \E o \in OgOutcomes :
          /\ deduped' = IF o.img # None
                        THEN [deduped EXCEPT ![ti].image = o.img]
                        ELSE deduped
          /\ thumb_budget' = BudgetAfter(thumb_budget, o.img)
          /\ IF o.raised
             THEN LogLine([ev |-> "OG image fetch failed", src |-> "", n |-> 0])
             ELSE UNCHANGED <<stdout, logfile>>
    /\ ti' = ti + 1
    /\ lookups' = lookups + 1
    /\ UNCHANGED <<pc, query, per_feed_limit, max_total, thumb_arg, fi, all_items,
                   seen, di, kept, items, by_month, months, call>>

DateKey(it) == it.date

RECURSIVE InsertNewestFirst(_, _)
\* x put into a list that is sorted by date descending, after every element
\* whose date is not smaller than x's.
InsertNewestFirst(s, x) ==
    IF s = <<>> THEN <<x>>
    ELSE IF StrLess(DateKey(Head(s)), DateKey(x)) THEN <<x>> \o s
    ELSE <<Head(s)>> \o InsertNewestFirst(Tail(s), x)

RECURSIVE InsertBeforeTies(_, _)
InsertBeforeTies(s, x) ==
    IF s = <<>> THEN <<x>>
    ELSE IF ~StrLess(DateKey(x), DateKey(Head(s))) THEN <<x>> \o s
    ELSE <<Head(s)>> \o InsertBeforeTies(Tail(s), x)

RECURSIVE SortTiesReversed(_)
\* A descending sort that reverses the order of equal dates (what sorting
\* ascending and reversing the list would give).
SortTiesReversed(s) ==
    IF s = <<>> THEN <<>>
    ELSE InsertBeforeTies(SortTiesReversed(SubSeq(s, 1, Len(s) - 1)), s[Len(s)])

RECURSIVE sort_newest_first(_)
\* list.sort(key=lambda x: x.get("date") or "", reverse=True): a stable sort,
\* descending; reverse=True keeps the order of equal keys.
sort_newest_first(s) ==
    IF s = <<>> THEN <<>>
    ELSE InsertNewestFirst(sort_newest_first(SubSeq(s, 1, Len(s) - 1)), s[Len(s)])

\* The thumbnail loop ends (list exhausted, or budget spent: `break`), the
\* list is sorted in place and returned to build.
SortAndReturn ==
    /\ pc = "thumbs"
    /\ ti > Len(deduped) \/ thumb_budget <= 0
    /\ deduped' = sort_newest_first(deduped)
    /\ items' = deduped'
    /\ pc' = "aggregated"
    /\ UNCHANGED <<query, per_feed_limit, max_total, thumb_arg, thumb_budget, fi,
                   all_items, seen, di, ti, lookups, kept, stdout, logfile,
                   by_month, months, call>>

---------------------------------------------------------------------------
(* write_archives and the rest of build *)

Unknown == <<"u", "n", "k", "n", "o", "w", "n">>

\* A partition key that keeps the day.
DayKey(it) ==
    LET d == Prefix(it.date, 10)
    IN  IF d # <<>> THEN d ELSE Unknown

\* ym of write_archives
MonthKey(it) ==
    LET d == Prefix(it.date, 10)
    IN  IF d # <<>> THEN Prefix(d, 7) ELSE Unknown

\* by_month once every list has been sorted (arr.sort, newest first)
GroupByMonth(its) ==
    [ym \in {MonthKey(its[i]) : i \in DOMAIN its} |->
        sort_newest_first(SelectSeq(its, LAMBDA it : MonthKey(it) = ym))]

RECURSIVE SortedDescending(_)
\* sorted(S, reverse=True) for a set of distinct strings
SortedDescending(S) ==
    IF S = {} THEN <<>>
    ELSE LET top == CHOOSE a \in S : \A b \in S : ~StrLess(a, b)
         IN  <<top>> \o SortedDescending(S \ {top})

\* months of write_archives: the order of the index page
IndexOrder(bm) == SortedDescending(DOMAIN bm)

\* build once aggregate has returned: items.json and the placeholders are
\* written, write_archives(items) groups the items and orders the index,
\* LOG_FILE.write_text(...) replaces the log file by three lines,
\* write_logs_html reads it, and log() prints and appends the last line.
BuildOutputs ==
    /\ pc = "aggregated"
    /\ by_month' = GroupByMonth(items)
    /\ months' = IndexOrder(by_month')
    /\ stdout' = Append(stdout, [ev |-> "Built", src |-> "", n |-> Len(items)])
    /\ logfile' = <<[ev |-> "Generated", src |-> "", n |-> 0],
                    [ev |-> "Query", src |-> "", n |-> Len(query)],
                    [ev |-> "Items", src |-> "", n |-> Len(items)],
                    [ev |-> "Built", src |-> "", n |-> Len(items)]>>
    /\ pc' = "done"
    /\ UNCHANGED <<query, per_feed_limit, max_total, thumb_arg, thumb_budget, fi,
                   all_items, seen, deduped, di, ti, lookups, kept, items, call>>

---------------------------------------------------------------------------
(* The catalog *)

\* The em-dash placeholder
Dash == "U+2014"

Program == <<"p", "r", "o", "g", "r", "a", "m">>

Expert == <<"e", "x", "p", "e", "r", "t">>

Institution == <<"i", "n", "s", "t", "i", "t", "u", "t", "i", "o", "n">>

\* urlparse(u).netloc.lower()
domain_of(u) == Lower(Netloc(u))

\* make_record(kind, name, href, image=image, location=..., tags=...);
\* `type` is the "__type" key, and a record made without location= has
\* location None here (rec.get("location") reads both alike).
make_record(kind, name, href, image, location, tags) ==
    [name |-> name, url |-> href, image |-> image, type |-> kind,
     location |-> location, tags |-> tags]

\* The url of a page that is scraped for its outbound links
PageUrl == Url(<<"p">>, <<>>)

OutlinksCfg(type, tags) ==
    [mode |-> "outlinks", type |-> type, url |-> PageUrl, name |-> None,
     location |-> None, tags |-> tags]

SingleCfg(type, name, url, location, tags) ==
    [mode |-> "single", type |-> type, url |-> url, name |-> name,
     location |-> location, tags |-> tags]

\* Configurations build_catalog runs over. The first has the shape of
\* SITE_MAP as shipped (outlinks pages of institutions and of programs, then
\* a single institution with a name and a location); the others hold an
\* expert source, a single source without a name and one with a blank name.
SiteMaps ==
    { << OutlinksCfg(Institution, <<"t">>),
         OutlinksCfg(Program, <<"r">>),
         SingleCfg(Institution, <<"a">>, Url(<<"x">>, <<>>), <<"L">>, <<"c">>) >>,
      << SingleCfg(Expert, None, Url(<<"x">>, <<>>), <<"L">>, <<>>),
         OutlinksCfg(Expert, <<"t">>) >>,
      << SingleCfg(Program, <<" ">>, Url(<<"y">>, <<>>), <<"L">>, <<"c">>),
         OutlinksCfg(Institution, <<>>) >> }

\* The number of links scrape_outlinks retains from one page
MaxAnchors == 2

\* An outbound link of a page: the name guessed from its anchor, its
\* absolute href, and what get_og_image returned for it.
Anchor(name, href, image) == [name |-> name, href |-> href, image |-> image]

\* The links a page may hold, among them one without a host ("m:x", as a
\* mailto: link has none).
PageAnchors ==
    { Anchor(<<"A">>, Url(<<"x">>, <<"1">>), ImageUrl),
      Anchor(<<"a">>, Url(<<"X">>, <<"2">>), None),
      Anchor(<<"b">>, Url(<<"x">>, <<"1">>), None),
      Anchor(<<"A">>, <<"m", ":", "x">>, None),
      Anchor(<<"A">>, Url(<<"y">>, <<"1">>), None) }

\* What one source yields: for an outlinks page, a failure or the links
\* retained (external, one per href); for a single page, the image found.
OutlinksPages ==
    {[failed |-> TRUE, anchors |-> <<>>, image |-> None]} \cup
    { [failed |-> FALSE, anchors |-> a, image |-> None] :
        a \in {b \in SeqsUpTo(PageAnchors, MaxAnchors) :
                 \A i, j \in DOMAIN b : i # j => b[i].href # b[j].href} }

SinglePages ==
    { [failed |-> FALSE, anchors |-> <<>>, image |-> img] : img \in {None, ImageUrl} }

\* The outcomes of scraping every source of a configuration
PagesFor(site_map) ==
    { pages \in [DOMAIN site_map -> OutlinksPages \cup SinglePages] :
        \A i \in DOMAIN site_map :
            pages[i] \in (IF site_map[i].mode = "single" THEN SinglePages
                          ELSE OutlinksPages) }

\* scrape_outlinks(cfg), the page having yielded `page`
scrape_outlinks(cfg, page) ==
    IF page.failed THEN <<>>
    ELSE [i \in DOMAIN page.anchors |->
            make_record(cfg.type, page.anchors[i].name, page.anchors[i].href,
                        page.anchors[i].image, None, cfg.tags)]

\* scrape_single(cfg), get_og_image having returned page.image
scrape_single(cfg, page) ==
    << make_record(cfg.type,
                   IF cfg.name # None THEN cfg.name ELSE domain_of(cfg.url),
                   cfg.url, page.image, cfg.location, cfg.tags) >>

RECURSIVE ScrapeAll(_, _, _)
\* raw: the records of the sources from number i on, in configuration order
ScrapeAll(site_map, pages, i) ==
    IF i > Len(site_map) THEN <<>>
    ELSE (IF site_map[i].mode = "single"
          THEN scrape_single(site_map[i], pages[i])
          ELSE scrape_outlinks(site_map[i], pages[i]))
         \o ScrapeAll(site_map, pages, i + 1)

\* A key that forgets the domain.
KeyByNameOnly(x) == Lower(Strip(x.name))

\* kfn(x): "name|domain", or None when either is empty
kfn(x) ==
    LET nm == Lower(Strip(x.name))
        domain == domain_of(x.url)
    IN  IF nm # <<>> /\ domain # <<>> THEN nm \o <<"|">> \o domain ELSE None

RECURSIVE DedupeRecords(_, _)
\* The de-dup loop of build_catalog over raw, `keys` being the keys seen
DedupeRecords(raw, keys) ==
    IF raw = <<>> THEN <<>>
    ELSE LET k == kfn(Head(raw))
         IN  IF k = None \/ k \in keys THEN DedupeRecords(Tail(raw), keys)
             ELSE <<Head(raw)>> \o DedupeRecords(Tail(raw), keys \cup {k})

\* v or "—"
OrDash(v) == IF v # None THEN v ELSE <<Dash>>

ProgramShape(rec) ==
    [name |-> rec.name, category |-> <<Dash>>,
     description |-> "External resource from roadmap", location |-> <<Dash>>,
     url |-> rec.url, image |-> rec.image, tags |-> rec.tags]

ExpertShape(rec) ==
    [name |-> rec.name, specialty |-> <<Dash>>, location |-> OrDash(rec.location),
     rating |-> None, url |-> rec.url, image |-> rec.image, tags |-> rec.tags]

InstitutionShape(rec) ==
    [name |-> rec.name, focus |-> "Longevity / Clinic / Biotech",
     location |-> OrDash(rec.location), url |-> rec.url, image |-> rec.image,
     tags |-> rec.tags]

\* The list a record goes to
BucketOf(rec) ==
    LET t == Lower(rec.type)
    IN  IF t = Program THEN "programs"
        ELSE IF t = Expert THEN "experts"
        ELSE "institutions"

RECURSIVE Bucketed(_)
\* bucketed, after the loop over the de-duplicated records
Bucketed(recs) ==
    IF recs = <<>> THEN [programs |-> <<>>, experts |-> <<>>, institutions |-> <<>>]
    ELSE LET rec == recs[Len(recs)]
             before == Bucketed(SubSeq(recs, 1, Len(recs) - 1))
         IN  IF BucketOf(rec) = "programs"
             THEN [before EXCEPT !.programs = Append(@, ProgramShape(rec))]
             ELSE IF BucketOf(rec) = "experts"
             THEN [before EXCEPT !.experts = Append(@, ExpertShape(rec))]
             ELSE [before EXCEPT !.institutions = Append(@, InstitutionShape(rec))]

\* What build_catalog writes to catalog.json, raw being what the sources gave
build_catalog(raw) == Bucketed(DedupeRecords(raw, {}))

\* The lines the scrapers log, one per source
ScrapeLines(site_map, pages) ==
    [i \in DOMAIN site_map |->
        IF site_map[i].mode = "single"
        THEN [ev |-> "[catalog] single", src |-> "", n |-> 1]
        ELSE IF pages[i].failed
        THEN [ev |-> "[catalog] outlinks error", src |-> "", n |-> 0]
        ELSE [ev |-> "[catalog] outlinks", src |-> "", n |-> Len(pages[i].anchors)]]

\* build_catalog() over one configuration and one outcome of its scrapes
BuildCatalogRun ==
    /\ pc = "catalog"
    /\ \E site_map \in SiteMaps :
          \E pages \in PagesFor(site_map) :
             LET raw == ScrapeAll(site_map, pages, 1)
                 bucketed == build_catalog(raw)
                 lines == ScrapeLines(site_map, pages)
                            \o <<[ev |-> "[catalog] Wrote", src |-> "",
                                  n |-> Len(bucketed.programs) + Len(bucketed.experts)
                                          + Len(bucketed.institutions)]>>
             IN  /\ call' = [op |-> "build_catalog", site_map |-> site_map,
                             raw |-> raw, ret |-> bucketed]
                 /\ stdout' = stdout \o lines
                 /\ logfile' = logfile \o lines
    /\ pc' = "catalogued"
    /\ UNCHANGED <<query, per_feed_limit, max_total, thumb_arg, thumb_budget, fi,
                   all_items, seen, deduped, di, ti, lookups, kept, items,
                   by_month, months>>

---------------------------------------------------------------------------
(* Specifications *)

Init ==
    /\ pc = "idle"
    /\ query = <<>>
    /\ per_feed_limit = 0
    /\ max_total = 0
    /\ thumb_arg = 0
    /\ thumb_budget = 0
    /\ fi = 1
    /\ all_items = <<>>
    /\ seen = {}
    /\ deduped = <<>>
    /\ di = 1
    /\ ti = 1
    /\ lookups = 0
    /\ kept = <<>>
    /\ items = <<>>
    /\ stdout = <<>>
    /\ logfile = <<>>
    /\ by_month = <<>>
    /\ months = <<>>
    /\ call = NoCall

Next ==
    \/ AggregateStart
    \/ FetchFeedOk
    \/ FetchFeedFail
    \/ DedupeSkip
    \/ DedupeKeep
    \/ DedupeEnd
    \/ ThumbLookup
    \/ SortAndReturn
    \/ BuildOutputs

Spec == Init /\ [][Next]_vars

UtilInit ==
    /\ pc = "util"
    /\ query = <<>>
    /\ per_feed_limit = 0
    /\ max_total = 0
    /\ thumb_arg = 0
    /\ thumb_budget = 0
    /\ fi = 1
    /\ all_items = <<>>
    /\ seen = {}
    /\ deduped = <<>>
    /\ di = 1
    /\ ti = 1
    /\ lookups = 0
    /\ kept = <<>>
    /\ items = <<>>
    /\ stdout = <<>>
    /\ logfile = <<>>
    /\ by_month = <<>>
    /\ months = <<>>
    /\ call = NoCall

UtilNext ==
    \/ TruncateCall
    \/ NormalizeKeyCall
    \/ ParseDateCall

UtilSpec == UtilInit /\ [][UtilNext]_vars

CatalogInit ==
    /\ pc = "catalog"
    /\ query = <<>>
    /\ per_feed_limit = 0
    /\ max_total = 0
    /\ thumb_arg = 0
    /\ thumb_budget = 0
    /\ fi = 1
    /\ all_items = <<>>
    /\ seen = {}
    /\ deduped = <<>>
    /\ di = 1
    /\ ti = 1
    /\ lookups = 0
    /\ kept = <<>>
    /\ items = <<>>
    /\ stdout = <<>>
    /\ logfile = <<>>
    /\ by_month = <<>>
    /\ months = <<>>
    /\ call = NoCall

CatalogNext == BuildCatalogRun

CatalogSpec == CatalogInit /\ [][CatalogNext]_vars

---------------------------------------------------------------------------
(* Properties *)

\* aggregate has left its de-dup loop
Deduplicated == pc \in {"thumbs", "aggregated", "done"}

\* aggregate has returned
Returned == pc \in {"aggregated", "done"}

\* The number of indices of a sequence that satisfy Test
Count(s, Test(_)) == Cardinality({i \in DOMAIN s : Test(s[i])})

\* The fingerprints of a list of items
KeysOf(its) == {ItemKey(its[i]) : i \in DOMAIN its}

\* Item number i of all_items is the first one with its fingerprint among
\* the items of Candidates.
FirstOfKey(i, Candidates) ==
    /\ i \in Candidates
    /\ \A j \in Candidates : j < i => ItemKey(all_items[j]) # ItemKey(all_items[i])

RECURSIVE Pick(_, _)
\* The items of all_items at the indices of I, in input order
Pick(I, from) ==
    IF from > Len(all_items) THEN <<>>
    ELSE (IF from \in I THEN <<all_items[from]>> ELSE <<>>) \o Pick(I, from + 1)

\* The first-occurring item of every fingerprint, over all fetched items
FirstOccurrences ==
    Pick({i \in DOMAIN all_items : FirstOfKey(i, DOMAIN all_items)}, 1)

\* The same, over the fetched items that have a title and a link
FirstRetainedOccurrences ==
    LET ok == {i \in DOMAIN all_items : Retained(all_items[i])}
    IN  Pick({i \in ok : FirstOfKey(i, ok)}, 1)

\* C1 as claimed: the de-duplicated list holds exactly one item per
\* fingerprint of the flattened list, k items for k distinct fingerprints,
\* each the first-occurring item of its fingerprint. (Stated for
\* max_total >= 1, where the cap is never exceeded.)
C1_AsClaimed == Deduplicated /\ max_total >= 1 => kept = FirstOccurrences

\* C1 (amended): among the fetched items that have a title and a link, with
\* k distinct fingerprints, the de-duplicated list is made of the
\* first-occurring item of each fingerprint, in input order, cut off where
\* the cap stopped the loop: exactly min(k, max_total) items when
\* max_total >= 1, and all k whenever fewer than max_total were kept.
C1_DedupFirstWins ==
    Deduplicated =>
        LET firsts == FirstRetainedOccurrences
            k == Len(firsts)
        IN  /\ Len(kept) <= k
            /\ kept = Prefix(firsts, Len(kept))
            /\ Len(kept) < max_total => Len(kept) = k
            /\ max_total >= 1 => Len(kept) = (IF k < max_total THEN k ELSE max_total)

\* C1's case: two fetched items with a title and a link share a fingerprint,
\* and the first of them is the one kept.
C1_Witness ==
    /\ Deduplicated
    /\ \E i, j \in DOMAIN all_items :
          /\ i < j
          /\ Retained(all_items[i]) /\ Retained(all_items[j])
          /\ all_items[i] # all_items[j]
          /\ ItemKey(all_items[i]) = ItemKey(all_items[j])
          /\ all_items[i].source # all_items[j].source
          /\ kept = <<all_items[i]>>

\* C2: the list aggregate returns never holds more than max_total items,
\* whatever max_total is.
C2_CapEnforced == Returned => Len(items) <= max_total

\* C3: once aggregate has returned, at most thumb_budget (as passed) of the
\* returned items have an image.
C3_ThumbnailBudget ==
    Returned => Count(items, LAMBDA it : it.image # None) <= thumb_arg

\* C3's case: two items were kept, the budget was one, a lookup failed and a
\* later one succeeded, leaving one image.
C3_Witness ==
    /\ Returned
    /\ thumb_arg = 1
    /\ Len(items) = 2
    /\ lookups = 2
    /\ Count(items, LAMBDA it : it.image # None) = 1

\* it, as it was before the thumbnail loop touched it
WithoutImage(it) == [it EXCEPT !.image = None]

\* The index at which it was kept by the de-dup loop
KeptAt(it) == CHOOSE a \in DOMAIN kept : kept[a] = WithoutImage(it)

\* C4: the returned list is the de-duplicated list reordered by date
\* descending: no item precedes one with a greater date, every item with an
\* empty date follows every item with a date, and items with the same date
\* keep the order they had in the de-duplicated list.
C4_SortOrder ==
    Returned =>
        /\ Len(items) = Len(kept)
        /\ \A i \in DOMAIN items : \E a \in DOMAIN kept : kept[a] = WithoutImage(items[i])
        /\ \A i, j \in DOMAIN items :
              i < j =>
                 /\ ~StrLess(items[i].date, items[j].date)
                 /\ items[i].date = <<>> => items[j].date = <<>>
                 /\ items[i].date = items[j].date => KeptAt(items[i]) < KeptAt(items[j])

\* C4's case: two returned items carry the same non-empty date.
C4_Witness ==
    /\ Returned
    /\ \E i, j \in DOMAIN items :
          /\ i < j
          /\ items[i].date # <<>>
          /\ items[i].date = items[j].date

\* The lines log() printed for the feeds, one per feed fetched so far
FeedLines == SelectSeq(stdout, LAMBDA l : l.ev \in {"Fetched", "Fetch error"})

\* What holds of the feed lines and the fetched items at every moment: one
\* line per feed fetched so far, in feed order; no item from a feed that
\* failed; every feed fetched before the de-dup loop starts.
FeedsAccounted ==
    /\ pc # "idle" =>
          /\ Len(FeedLines) = fi - 1
          /\ \A k \in DOMAIN FeedLines :
                /\ FeedLines[k].src = feeds[k]
                /\ FeedLines[k].ev = "Fetch error" =>
                      Count(all_items, LAMBDA it : it.source = feeds[k]) = 0
                /\ FeedLines[k].ev = "Fetched" =>
                      Count(all_items, LAMBDA it : it.source = feeds[k]) = FeedLines[k].n
    /\ pc \notin {"idle", "fetch"} => Len(FeedLines) = Len(feeds)

\* The step logs `ev` as its last line.
Logs(ev) ==
    /\ Len(stdout') = Len(stdout) + 1
    /\ stdout'[Len(stdout')].ev = ev

\* A step in which a feed fails goes on to the next feed (or to the de-dup
\* loop after the last feed) with the items unchanged; a step in which a
\* thumbnail lookup raises goes on to the next item.
FailureGoesOn ==
    /\ Logs("Fetch error") =>
          /\ all_items' = all_items
          /\ fi' = fi + 1
          /\ pc' = (IF fi = Len(feeds) THEN "dedupe" ELSE "fetch")
    /\ Logs("OG image fetch failed") =>
          /\ deduped' = deduped
          /\ ti' = ti + 1
          /\ pc' = "thumbs"

\* C5: a feed whose fetch or parse fails is logged and contributes no item,
\* every feed of the list gets fetched whatever happened to the feeds
\* before it, and neither a failing feed nor a failing thumbnail lookup
\* stops the run: aggregate goes on with the next feed or item.
C5_FailureIsolation == []FeedsAccounted /\ [][FailureGoesOn]_vars

\* C5's case: the first feed failed, a later feed was fetched and gave an
\* item, a thumbnail lookup raised, and build ran to its end.
C5_Witness ==
    /\ pc = "done"
    /\ FeedLines[1].ev = "Fetch error"
    /\ \E k \in DOMAIN FeedLines : k > 1 /\ FeedLines[k].ev = "Fetched" /\ FeedLines[k].n > 0
    /\ \E k \in DOMAIN stdout : stdout[k].ev = "OG image fetch failed"
    /\ Len(items) > 0

\* C6: every kept and every returned item has a title and a link; only kept
\* items are counted (toward the cap) and remembered (in seen), so an item
\* without title or link never stands in the way of a later item: every
\* examined item that has both is represented in the list by its
\* fingerprint.
C6_TitleAndLink ==
    /\ \A a \in DOMAIN deduped : deduped[a].title # <<>> /\ deduped[a].link # <<>>
    /\ \A i \in DOMAIN items : items[i].title # <<>> /\ items[i].link # <<>>
    /\ seen = KeysOf(deduped)
    /\ Len(deduped) = Cardinality(seen)
    /\ \A i \in DOMAIN all_items :
          pc # "fetch" /\ i < di /\ all_items[i].title # <<>> /\ all_items[i].link # <<>>
             => ItemKey(all_items[i]) \in seen

\* C6's case: an item without title came first, an item with title and
\* link and the same fingerprint came second, and the second was returned.
C6_Witness ==
    /\ Returned
    /\ Len(all_items) = 2
    /\ all_items[1].title = <<>>
    /\ ItemKey(all_items[1]) = ItemKey(all_items[2])
    /\ Len(items) = 1
    /\ WithoutImage(items[1]) = all_items[2]

\* write_archives has written the month pages and the index
Archived == pc = "done"

\* C9: the index lists the months by descending YYYY-MM string, and the
\* "unknown" partition last.
C9_IndexOrder ==
    Archived =>
        /\ \A i, j \in DOMAIN months :
              i < j /\ months[i] # Unknown /\ months[j] # Unknown
                 => StrLess(months[j], months[i])
        /\ \A i \in DOMAIN months : months[i] = Unknown => i = Len(months)

\* The first seven characters of a date, or "unknown" for the empty date
YearMonth(date) == IF date = <<>> THEN Unknown ELSE SubSeq(date, 1, 7)

\* C10: every item is in exactly one partition, the one named by the first
\* seven characters of its date ("unknown" for an empty date), so that two
\* items of the same YYYY-MM are in the same partition; each partition is
\* ordered newest first by full date.
C10_Partition ==
    Archived =>
        /\ \A i \in DOMAIN items :
              /\ YearMonth(items[i].date) \in DOMAIN by_month
              /\ \A ym \in DOMAIN by_month :
                    Count(by_month[ym], LAMBDA it : it = items[i])
                       = (IF ym = YearMonth(items[i].date) THEN 1 ELSE 0)
        /\ \A ym \in DOMAIN by_month :
              /\ by_month[ym] # <<>>
              /\ \A a \in DOMAIN by_month[ym] :
                    \E i \in DOMAIN items : items[i] = by_month[ym][a]
              /\ \A a, b \in DOMAIN by_month[ym] :
                    a < b => ~StrLess(by_month[ym][a].date, by_month[ym][b].date)

\* C10's case: two items of the same month and different days share a
\* partition, the later one first.
C10_Witness ==
    /\ Archived
    /\ \E ym \in DOMAIN by_month :
          /\ ym # Unknown
          /\ Len(by_month[ym]) = 2
          /\ StrLess(by_month[ym][2].date, by_month[ym][1].date)
          /\ items[1] = by_month[ym][1]

---------------------------------------------------------------------------
(* Properties of the text utilities, over UtilSpec *)

\* A title with its letters lowercased and its punctuation removed:
\* everything in which two titles may differ "only in case or punctuation".
FoldCaseAndPunctuation(t) ==
    SelectSeq(Lower(t), LAMBDA c : IsLower(c) \/ IsDigit(c) \/ IsSpace(c))

\* C7: two fingerprints are equal if and only if the lowercase hosts are
\* equal and the normalized titles are equal; titles that differ only in
\* case or punctuation collide on the same host, and the same title on two
\* different hosts does not collide.
C7_KeyEquality ==
    call.op = "normalize_key" =>
        \A t2 \in SeqsUpTo(TitleChars, MaxTitleLen), l2 \in KeyLinks :
            LET same == call.ret = normalize_key(t2, l2)
            IN  /\ same <=> /\ KeyHost(call.link) = KeyHost(l2)
                            /\ KeyTitle(call.title) = KeyTitle(t2)
                /\ /\ KeyHost(call.link) = KeyHost(l2)
                   /\ FoldCaseAndPunctuation(call.title) = FoldCaseAndPunctuation(t2)
                   => same
                /\ call.title = t2 /\ KeyHost(call.link) # KeyHost(l2) => ~same

\* p is s cut at a space boundary: a prefix of s that ends where a word of
\* s ends (the next character of s is a space), or that shows no word.
CutAtSpace(p, s) ==
    /\ Len(p) < Len(s)
    /\ p = Prefix(s, Len(p))
    /\ p = <<>> \/ s[Len(p) + 1] = " "

\* C8: the output of truncate(s, n) has at most n + 1 characters; a cleaned
\* text of at most n characters is returned unchanged; a longer one comes
\* back as a prefix cut at a space boundary, no word split, followed by
\* one ellipsis character.
C8_Truncate ==
    call.op = "truncate" =>
        LET c == clean_text(call.s)
            r == call.ret
        IN  /\ Len(r) <= call.n + 1
            /\ Len(c) <= call.n => r = c
            /\ Len(c) > call.n =>
                  /\ r # <<>>
                  /\ r[Len(r)] = Ellipsis
                  /\ CutAtSpace(Prefix(r, Len(r) - 1), c)

---------------------------------------------------------------------------
(* Properties of the log file and of the thumbnail lookups, over Spec *)

\* a is what b started with
IsPrefixOf(a, b) == Len(a) <= Len(b) /\ SubSeq(b, 1, Len(a)) = a

\* C11: the log file is append-only over a run: every step leaves the lines
\* already written where they are and at most adds lines after them.
C11_LogAppendOnly == [][IsPrefixOf(logfile, logfile')]_vars

\* C12: the number of get_og_image calls made by the thumbnail loop never
\* exceeds the thumb_budget that aggregate was given.
C12_LookupsWithinBudget == lookups <= thumb_arg

---------------------------------------------------------------------------
(* Properties of parse_date, over UtilSpec *)

\* The order in which the date representations are to be tried
DateKeyOrder == <<"published_parsed", "updated_parsed", "published", "updated", "dc_date">>

\* C13: parse_date returns the canonical string of the first representation
\* that converts, in the order published_parsed, updated_parsed, published,
\* updated, dc_date; an absent or failing representation does not stop the
\* chain; the result is empty exactly when no representation converts.
C13_FallbackChain ==
    call.op = "parse_date" =>
        LET e == call.entry
            converting == {i \in DOMAIN DateKeyOrder : Converts(e[DateKeyOrder[i]])}
        IN  /\ converting # {} =>
                  \E i \in converting :
                      /\ \A j \in converting : i <= j
                      /\ call.ret = strftime(e[DateKeyOrder[i]].t)
            /\ call.ret = <<>> <=> converting = {}

\* C13's case: the first structured value and the first string fail, the
\* second structured value is absent, and the date comes from `updated`
\* although dc_date converts too.
C13_Witness ==
    /\ call.op = "parse_date"
    /\ call.entry.published_parsed = Garbage
    /\ call.entry.updated_parsed = Absent
    /\ call.entry.published = Garbage
    /\ call.entry.updated = Time(T_Mar02)
    /\ call.entry.dc_date = Time(T_Mar15)
    /\ call.ret = <<"2","0","2","4","-","0","3","-","0","2"," ","0","8",":","0","0",":","0","0">>

---------------------------------------------------------------------------
(* Properties of build_catalog, over CatalogSpec *)

RECURSIVE RecordsAt(_, _, _)
\* The elements of s at the indices of I, from index `from` on, in order
RecordsAt(s, I, from) ==
    IF from > Len(s) THEN <<>>
    ELSE (IF from \in I THEN <<s[from]>> ELSE <<>>) \o RecordsAt(s, I, from + 1)

\* What a scraped record and its catalog entry have in common
Core(r) == [name |-> r.name, url |-> r.url, image |-> r.image, tags |-> r.tags]

Cores(rs) == [i \in DOMAIN rs |-> Core(rs[i])]

\* The (lowercase name, link domain) pair of a record
NamePair(x) == <<Lower(x.name), domain_of(x.url)>>

\* The same with the name stripped of surrounding whitespace first
StrippedPair(x) == <<Lower(Strip(x.name)), domain_of(x.url)>>

\* The indices of I whose record is the first of I with its pair
FirstsBy(raw, I, PairOf(_)) ==
    {i \in I : \A j \in I : j < i => PairOf(raw[j]) # PairOf(raw[i])}

\* Every entry of the three lists has the keys of its list's shape, with
\* the em-dash or null where the value is missing.
ShapesComplete(b) ==
    /\ \A i \in DOMAIN b.programs :
          /\ DOMAIN b.programs[i] =
                {"name", "category", "description", "location", "url", "image", "tags"}
          /\ b.programs[i].category = <<Dash>>
          /\ b.programs[i].location = <<Dash>>
    /\ \A i \in DOMAIN b.experts :
          /\ DOMAIN b.experts[i] =
                {"name", "specialty", "location", "rating", "url", "image", "tags"}
          /\ b.experts[i].specialty = <<Dash>>
          /\ b.experts[i].rating = None
          /\ b.experts[i].location # None
    /\ \A i \in DOMAIN b.institutions :
          /\ DOMAIN b.institutions[i] =
                {"name", "focus", "location", "url", "image", "tags"}
          /\ b.institutions[i].location # None

\* The three lists hold exactly the records of raw at the indices of I,
\* each in the list of its kind tag, in the order of raw.
ListsHold(b, raw, I) ==
    /\ Cores(b.programs) =
          Cores(RecordsAt(raw, {i \in I : Lower(raw[i].type) = Program}, 1))
    /\ Cores(b.experts) =
          Cores(RecordsAt(raw, {i \in I : Lower(raw[i].type) = Expert}, 1))
    /\ Cores(b.institutions) =
          Cores(RecordsAt(raw, {i \in I : Lower(raw[i].type) = Institution}, 1))
    /\ Len(b.programs) + Len(b.experts) + Len(b.institutions) = Cardinality(I)

\* C14 as claimed: of the merged records, the first of every (lowercase
\* name, link domain) pair is kept and the others are not; every kept record
\* is in exactly one list, the one of its kind tag, with all keys present.
C14_AsClaimed ==
    call.op = "build_catalog" =>
        /\ ListsHold(call.ret, call.raw, FirstsBy(call.raw, DOMAIN call.raw, NamePair))
        /\ ShapesComplete(call.ret)

\* C14 (amended): records whose name, stripped of surrounding whitespace,
\* or whose link domain is empty are dropped; of the others, the first of
\* every (stripped lowercase name, link domain) pair is kept, in merge
\* order, in exactly one list, the one of its kind tag, with all keys
\* present and the location given or an em-dash.
C14_CatalogMerge ==
    call.op = "build_catalog" =>
        LET raw == call.raw
            named == {i \in DOMAIN raw :
                        /\ StrippedPair(raw[i])[1] # <<>>
                        /\ StrippedPair(raw[i])[2] # <<>>}
            I == FirstsBy(raw, named, StrippedPair)
        IN  /\ ListsHold(call.ret, raw, I)
            /\ ShapesComplete(call.ret)
            /\ \A i \in I :
                  Lower(raw[i].type) # Program /\ raw[i].location # None =>
                     \E r \in Range(call.ret.experts) \cup Range(call.ret.institutions) :
                        Core(r) = Core(raw[i]) /\ r.location = raw[i].location

\* C14's case: two sources of different kinds give a record of the same
\* name (up to case) and domain, a third gives it again, one link has no
\* domain; the first record is kept, in the list of its own kind.
C14_Witness ==
    /\ call.op = "build_catalog"
    /\ Len(call.raw) = 5
    /\ Lower(call.raw[1].type) = Institution
    /\ Lower(call.raw[3].type) = Program
    /\ call.raw[1].name # call.raw[3].name
    /\ StrippedPair(call.raw[1]) = StrippedPair(call.raw[3])
    /\ StrippedPair(call.raw[1]) = StrippedPair(call.raw[5])
    /\ domain_of(call.raw[2].url) = <<>>
    /\ Cores(call.ret.institutions) = <<Core(call.raw[1])>>
    /\ Cores(call.ret.programs) = <<Core(call.raw[4])>>
    /\ call.ret.experts = <<>>

====
